---- MODULE Spec2Model ----
(***************************************************************************)
(* Model of the ROMA Azure demo: the IntelligentRouter of src/src/router.py *)
(* (routing matrix, model registry, lazily filled client cache) and the    *)
(* solve_with_roma pipeline of src/examples/demo_complete.py.               *)
(***************************************************************************)
EXTENDS Integers, Sequences, FiniteSets, TLC

VARIABLES
    \* ---- IntelligentRouter instance (router.py) ----
    azure_config,      \* self.azure_config
    model_registry,    \* self.model_registry : key -> ModelConfig
    routing_matrix,    \* self.routing_matrix : complexity -> priority -> domain -> key
    model_cache,       \* self._model_cache   : key -> dspy.LM handle
    lm_objects,        \* per key, the dspy.LM objects constructed for it (their arguments)
    last,              \* the most recent get_model call: arguments, resolved key, outcome
    returned,          \* history: the (key, handle) pairs get_model has returned
    \* ---- concurrent callers of get_model ----
    tpc,               \* per thread: position inside get_model
    tkey,              \* per thread: local model_key
    tlm,               \* per thread: local lm
    tcalls,            \* per thread: number of get_model calls started
    \* ---- one run of solve_with_roma (demo_complete.py) ----
    pc,                \* position of the run
    goal,              \* the goal argument
    atomized,          \* atomized.is_atomic, the text the backend returned
    is_atomic,         \* the parsed flag, None before the Atomizer step
    plan,              \* the planner's answer: subtasks and strategy
    subtask_results,   \* the list built by the subtask loop
    final_result,      \* None until Execute or Aggregate produced it
    verification,      \* verification.is_valid, the text the backend returned
    is_valid,          \* the parsed flag, None before the Verifier step
    results,           \* the dictionary the run returns
    calls,             \* history: every stage invocation, in order
    \* ---- the boolean reading of a backend text, on its own ----
    parse_text,        \* a backend text
    parse_atomic,      \* its reading at the Atomizer call site
    parse_valid        \* its reading at the Verifier call site

routerVars == <<azure_config, model_registry, routing_matrix, model_cache, lm_objects, last, returned>>
threadVars == <<tpc, tkey, tlm, tcalls>>
pipeVars == <<pc, goal, atomized, is_atomic, plan, subtask_results, final_result,
              verification, is_valid, results, calls>>
parseVars == <<parse_text, parse_atomic, parse_valid>>
vars == <<routerVars, threadVars, pipeVars, parseVars>>

-----------------------------------------------------------------------------
(* Enumerations, router.py lines 12-37 *)

TaskComplexity == {"ultra", "high", "medium", "low", "trivial"}
TaskPriority == {"quality", "speed", "balanced", "cost", "reasoning"}
TaskDomain == {"code", "document", "creative", "analysis", "general", "realtime"}

(* Optional values: None is the empty sequence, a value v is <<v>>. *)
None == <<>>
Some(v) == <<v>>

(* ModelConfig, router.py lines 40-50; cache defaults to True, the optional
   fields to None. *)
ModelConfig(name, provider, temperature, max_tokens, azure) ==
    [name |-> name, provider |-> provider, temperature |-> temperature,
     cache |-> TRUE, max_tokens |-> max_tokens,
     api_base |-> azure.api_base, api_key |-> azure.api_key,
     api_version |-> azure.api_version]

(* The azure_config argument of __init__: absent (every credential None) or the
   three credentials of the example at router.py lines 177-181. *)
NoAzureConfig == [api_base |-> None, api_key |-> None, api_version |-> None]
SampleAzureConfig ==
    [api_base |-> Some("https://YOUR-RESOURCE.openai.azure.com"),
     api_key |-> Some("YOUR_API_KEY"),
     api_version |-> Some("2025-01-01-preview")]
AzureConfigs == {NoAzureConfig, SampleAzureConfig}

(* self.model_registry, router.py lines 61-100 *)
BuildModelRegistry(azure) ==
    ("gpt5-chat" :> ModelConfig("gpt-5-chat", "azure", "1.0", Some(16000), azure)) @@
    ("deepseek-r1" :> ModelConfig("DeepSeek-R1-0528", "azure", "0.4", Some(250000), azure)) @@
    ("gpt4o" :> ModelConfig("gpt-4o", "azure", "0.7", None, azure)) @@
    ("grok-fast" :> ModelConfig("grok-4-fast-reasoning", "azure", "0.6", Some(250000), azure)) @@
    ("codestral" :> ModelConfig("Codestral-2501", "azure", "0.3", None, azure))

(* _build_routing_matrix, router.py lines 105-135 *)
BuildRoutingMatrix ==
    ("ultra" :>
        (("quality" :>
            (("code" :> "codestral") @@ ("analysis" :> "gpt5-chat") @@ ("general" :> "gpt5-chat"))) @@
         ("reasoning" :>
            (("code" :> "deepseek-r1") @@ ("analysis" :> "deepseek-r1") @@ ("general" :> "gpt5-chat"))))) @@
    ("high" :>
        (("quality" :>
            (("code" :> "codestral") @@ ("analysis" :> "gpt4o") @@ ("general" :> "gpt4o"))) @@
         ("speed" :>
            ("general" :> "grok-fast")))) @@
    ("medium" :>
        ("balanced" :>
            ("general" :> "gpt4o")))

(* dict.get(k, default) *)
DictGet(dict, k, default) == IF k \in DOMAIN dict THEN dict[k] ELSE default

(* The key used when the lookup raises KeyError or finds no entry,
   router.py lines 149 and 152. *)
DefaultKeyTypo == "gpt-4o"
DefaultKey == "gpt4o"

(* The routing step of get_model, router.py lines 146-152: both subscripts
   raise KeyError when the complexity or the priority is not a key, and the
   except branch then yields the default key. *)
ResolveKeyNoGeneral(matrix, complexity, priority, domain) ==
    IF complexity \notin DOMAIN matrix \/ priority \notin DOMAIN matrix[complexity]
    THEN DefaultKey
    ELSE DictGet(matrix[complexity][priority], domain, DefaultKey)
ResolveKey(matrix, complexity, priority, domain) ==
    IF complexity \notin DOMAIN matrix \/ priority \notin DOMAIN matrix[complexity]
    THEN DefaultKey
    ELSE DictGet(matrix[complexity][priority], domain,
                 DictGet(matrix[complexity][priority], "general", DefaultKey))

(* The keyword arguments handed to dspy.LM, router.py lines 161-169:
   max_tokens is passed only when config.max_tokens is truthy. *)
Truthy(opt) == opt # None /\ opt[1] # 0
LMArgsNoMaxTokens(config) ==
    [model |-> <<config.provider, "/", config.name>>,
     temperature |-> config.temperature,
     cache |-> config.cache,
     api_base |-> config.api_base,
     api_key |-> config.api_key,
     api_version |-> config.api_version,
     max_tokens |-> None]
LMArgs(config) ==
    [model |-> <<config.provider, "/", config.name>>,
     temperature |-> config.temperature,
     cache |-> config.cache,
     api_base |-> config.api_base,
     api_key |-> config.api_key,
     api_version |-> config.api_version,
     max_tokens |-> IF Truthy(config.max_tokens) THEN config.max_tokens ELSE None]

(* A model bound: the objects ever constructed for one key (a correct cache
   constructs one). *)
MaxObjectsPerKey == 3

(* A dspy.LM object is identified by the key it was constructed for and the
   number of that construction: two constructions never give the same object. *)
NoHandle == <<"", 0>>
NewHandle(objects, key) == <<key, Len(objects[key]) + 1>>

NoCall == [outcome |-> "none", complexity |-> "medium", priority |-> "balanced",
           domain |-> "general", key |-> "", handle |-> NoHandle, constructed |-> FALSE]

CallRecord(outcome, c, p, d, key, handle, constructed) ==
    [outcome |-> outcome, complexity |-> c, priority |-> p, domain |-> d,
     key |-> key, handle |-> handle, constructed |-> constructed]

(* Concurrent callers of get_model on one router. *)
NumThreads == 2
MaxCalls == 2
Threads == 1..NumThreads

(* IntelligentRouter.__init__, router.py lines 56-103 *)
RouterInitWith(azure) ==
    /\ azure_config = azure
    /\ model_registry = BuildModelRegistry(azure_config)
    /\ routing_matrix = BuildRoutingMatrix
    /\ model_cache = << >>
    /\ lm_objects = [k \in DOMAIN BuildModelRegistry(azure_config) |-> << >>]
    /\ last = NoCall
    /\ returned = {}

RouterInit == \E azure \in AzureConfigs : RouterInitWith(azure)

ThreadInit ==
    /\ tpc = [t \in Threads |-> "idle"]
    /\ tkey = [t \in Threads |-> ""]
    /\ tlm = [t \in Threads |-> NoHandle]
    /\ tcalls = [t \in Threads |-> 0]

(* dspy.LM(...) at router.py lines 161-169 either returns a new client object
   or raises. *)
LMOutcomes == {"ok", "raise"}

(* self._model_cache[model_key] = lm, router.py line 171 *)
CacheStoreSkipped(cache, key, lm) == cache
CacheStoreEvicting(cache, key, lm) == (key :> lm)
CacheStore(cache, key, lm) == (key :> lm) @@ cache

(* model_key in self._model_cache, router.py line 155 *)
CacheHas(cache, key) == key \in DOMAIN cache

(* IntelligentRouter.get_model, router.py lines 137-172.
   lines 146-152: the routing step;
   lines 155-156: a cached client is returned as it is;
   line 159: an unknown key raises KeyError;
   lines 161-169: the client is constructed, or dspy.LM raises;
   lines 171-172: the new client is stored under the key and returned. *)
GetModelPopsConfig(c, p, d) ==
    LET model_key == ResolveKey(routing_matrix, c, p, d) IN
    /\ IF CacheHas(model_cache, model_key)
       THEN LET lm == model_cache[model_key] IN
            /\ last' = CallRecord("return", c, p, d, model_key, lm, FALSE)
            /\ returned' = returned \cup {<<model_key, lm>>}
            /\ UNCHANGED <<model_cache, lm_objects>>
       ELSE IF model_key \notin DOMAIN model_registry
       THEN /\ last' = CallRecord("KeyError", c, p, d, model_key, NoHandle, FALSE)
            /\ UNCHANGED <<model_cache, lm_objects, returned>>
       ELSE \E outcome \in LMOutcomes :
            IF outcome = "raise"
            THEN /\ last' = CallRecord("LMError", c, p, d, model_key, NoHandle, FALSE)
                 /\ UNCHANGED <<model_cache, lm_objects, returned>>
            ELSE LET lm == NewHandle(lm_objects, model_key) IN
                 /\ Len(lm_objects[model_key]) < MaxObjectsPerKey
                 /\ lm_objects' = [lm_objects EXCEPT ![model_key] =
                                      Append(@, LMArgs(model_registry[model_key]))]
                 /\ model_cache' = CacheStore(model_cache, model_key, lm)
                 /\ last' = CallRecord("return", c, p, d, model_key, lm, TRUE)
                 /\ returned' = returned \cup {<<model_key, lm>>}
    /\ model_registry' = IF CacheHas(model_cache, model_key)
                          THEN model_registry
                          ELSE [k \in DOMAIN model_registry \ {model_key} |-> model_registry[k]]
    /\ UNCHANGED <<azure_config, routing_matrix>>
GetModelStoresFirst(c, p, d) ==
    LET model_key == ResolveKey(routing_matrix, c, p, d) IN
    /\ IF CacheHas(model_cache, model_key)
       THEN LET lm == model_cache[model_key] IN
            /\ last' = CallRecord("return", c, p, d, model_key, lm, FALSE)
            /\ returned' = returned \cup {<<model_key, lm>>}
            /\ UNCHANGED <<model_cache, lm_objects>>
       ELSE IF model_key \notin DOMAIN model_registry
       THEN /\ last' = CallRecord("KeyError", c, p, d, model_key, NoHandle, FALSE)
            /\ UNCHANGED <<model_cache, lm_objects, returned>>
       ELSE \E outcome \in LMOutcomes :
            IF outcome = "raise"
            THEN /\ last' = CallRecord("LMError", c, p, d, model_key, NoHandle, FALSE)
                 /\ model_cache' = CacheStore(model_cache, model_key, NoHandle)
                 /\ UNCHANGED <<lm_objects, returned>>
            ELSE LET lm == NewHandle(lm_objects, model_key) IN
                 /\ Len(lm_objects[model_key]) < MaxObjectsPerKey
                 /\ lm_objects' = [lm_objects EXCEPT ![model_key] =
                                      Append(@, LMArgs(model_registry[model_key]))]
                 /\ model_cache' = CacheStore(model_cache, model_key, lm)
                 /\ last' = CallRecord("return", c, p, d, model_key, lm, TRUE)
                 /\ returned' = returned \cup {<<model_key, lm>>}
    /\ UNCHANGED <<azure_config, model_registry, routing_matrix>>
GetModel(c, p, d) ==
    LET model_key == ResolveKey(routing_matrix, c, p, d) IN
    /\ IF CacheHas(model_cache, model_key)
       THEN LET lm == model_cache[model_key] IN
            /\ last' = CallRecord("return", c, p, d, model_key, lm, FALSE)
            /\ returned' = returned \cup {<<model_key, lm>>}
            /\ UNCHANGED <<model_cache, lm_objects>>
       ELSE IF model_key \notin DOMAIN model_registry
       THEN /\ last' = CallRecord("KeyError", c, p, d, model_key, NoHandle, FALSE)
            /\ UNCHANGED <<model_cache, lm_objects, returned>>
       ELSE \E outcome \in LMOutcomes :
            IF outcome = "raise"
            THEN /\ last' = CallRecord("LMError", c, p, d, model_key, NoHandle, FALSE)
                 /\ UNCHANGED <<model_cache, lm_objects, returned>>
            ELSE LET lm == NewHandle(lm_objects, model_key) IN
                 /\ Len(lm_objects[model_key]) < MaxObjectsPerKey
                 /\ lm_objects' = [lm_objects EXCEPT ![model_key] =
                                      Append(@, LMArgs(model_registry[model_key]))]
                 /\ model_cache' = CacheStore(model_cache, model_key, lm)
                 /\ last' = CallRecord("return", c, p, d, model_key, lm, TRUE)
                 /\ returned' = returned \cup {<<model_key, lm>>}
    /\ UNCHANGED <<azure_config, model_registry, routing_matrix>>

-----------------------------------------------------------------------------
(* get_model run by several threads on one router.  The code takes no lock, and
   a thread switch can fall between any two of its steps: the routing step
   (lines 146-152), the membership test and cached return (lines 155-156), the
   registry lookup and the construction of the client (lines 159-169), and the
   store and return (lines 171-172). *)

(* router.py lines 137-152: the call and its routing step *)
ThreadCall(t, c, p, d) ==
    /\ tpc[t] = "idle"
    /\ tcalls[t] < MaxCalls
    /\ tcalls' = [tcalls EXCEPT ![t] = @ + 1]
    /\ tkey' = [tkey EXCEPT ![t] = ResolveKey(routing_matrix, c, p, d)]
    /\ tlm' = [tlm EXCEPT ![t] = NoHandle]
    /\ tpc' = [tpc EXCEPT ![t] = "check"]
    /\ UNCHANGED <<routerVars, pipeVars, parseVars>>

(* router.py lines 155-156 (cached: return it) and line 159 (the registry
   lookup, KeyError for an unknown key) *)
ThreadCheck(t) ==
    /\ tpc[t] = "check"
    /\ IF CacheHas(model_cache, tkey[t])
       THEN /\ tlm' = [tlm EXCEPT ![t] = model_cache[tkey[t]]]
            /\ returned' = returned \cup {<<tkey[t], model_cache[tkey[t]]>>}
            /\ tpc' = [tpc EXCEPT ![t] = "idle"]
       ELSE /\ tpc' = [tpc EXCEPT ![t] =
                          IF tkey[t] \in DOMAIN model_registry THEN "construct" ELSE "idle"]
            /\ UNCHANGED <<tlm, returned>>
    /\ UNCHANGED <<azure_config, model_registry, routing_matrix, model_cache, lm_objects, last,
                   tkey, tcalls, pipeVars, parseVars>>

(* router.py lines 161-169: dspy.LM(...) returns a new object or raises *)
ThreadConstruct(t) ==
    /\ tpc[t] = "construct"
    /\ \E outcome \in LMOutcomes :
          IF outcome = "raise"
          THEN /\ tpc' = [tpc EXCEPT ![t] = "idle"]
               /\ UNCHANGED <<lm_objects, tlm>>
          ELSE /\ Len(lm_objects[tkey[t]]) < MaxObjectsPerKey
               /\ tlm' = [tlm EXCEPT ![t] = NewHandle(lm_objects, tkey[t])]
               /\ lm_objects' = [lm_objects EXCEPT ![tkey[t]] =
                                    Append(@, LMArgs(model_registry[tkey[t]]))]
               /\ tpc' = [tpc EXCEPT ![t] = "store"]
    /\ UNCHANGED <<azure_config, model_registry, routing_matrix, model_cache, last, returned,
                   tkey, tcalls, pipeVars, parseVars>>

(* router.py lines 171-172: store under the key and return *)
ThreadStore(t) ==
    /\ tpc[t] = "store"
    /\ model_cache' = CacheStore(model_cache, tkey[t], tlm[t])
    /\ returned' = returned \cup {<<tkey[t], tlm[t]>>}
    /\ tpc' = [tpc EXCEPT ![t] = "idle"]
    /\ UNCHANGED <<azure_config, model_registry, routing_matrix, lm_objects, last,
                   tkey, tlm, tcalls, pipeVars, parseVars>>

NextConc ==
    \/ \E t \in Threads, c \in TaskComplexity, p \in TaskPriority, d \in TaskDomain :
          ThreadCall(t, c, p, d)
    \/ \E t \in Threads : ThreadCheck(t)
    \/ \E t \in Threads : ThreadConstruct(t)
    \/ \E t \in Threads : ThreadStore(t)

-----------------------------------------------------------------------------
(* Backend texts.  A flag text (is_atomic, is_valid) is a sequence of
   characters.  A result text is known by the stage call that produced it and
   by its length; a slice keeps the source and shortens the length. *)

(* Characters are Unicode code points, a flag text is a sequence of them.
   str.lower() (demo_complete.py lines 105 and 154) as CPython 3.11 computes
   it with the Unicode 14.0.0 tables.

   LowerRanges: <<first, last, step, offset>>; every code point first,
   first + step, ..., last has the lower case code point + offset. *)
LowerRanges ==
    {<<65, 90, 1, 32>>, <<192, 214, 1, 32>>, <<216, 222, 1, 32>>, <<256, 302, 2, 1>>,
     <<306, 310, 2, 1>>, <<313, 327, 2, 1>>, <<330, 374, 2, 1>>, <<376, 376, 1, -121>>,
     <<377, 381, 2, 1>>, <<385, 385, 1, 210>>, <<386, 388, 2, 1>>, <<390, 390, 1, 206>>,
     <<391, 391, 1, 1>>, <<393, 394, 1, 205>>, <<395, 395, 1, 1>>, <<398, 398, 1, 79>>,
     <<399, 399, 1, 202>>, <<400, 400, 1, 203>>, <<401, 401, 1, 1>>, <<403, 403, 1, 205>>,
     <<404, 404, 1, 207>>, <<406, 406, 1, 211>>, <<407, 407, 1, 209>>, <<408, 408, 1, 1>>,
     <<412, 412, 1, 211>>, <<413, 413, 1, 213>>, <<415, 415, 1, 214>>, <<416, 420, 2, 1>>,
     <<422, 422, 1, 218>>, <<423, 423, 1, 1>>, <<425, 425, 1, 218>>, <<428, 428, 1, 1>>,
     <<430, 430, 1, 218>>, <<431, 431, 1, 1>>, <<433, 434, 1, 217>>, <<435, 437, 2, 1>>,
     <<439, 439, 1, 219>>, <<440, 440, 1, 1>>, <<444, 444, 1, 1>>, <<452, 452, 1, 2>>,
     <<453, 453, 1, 1>>, <<455, 455, 1, 2>>, <<456, 456, 1, 1>>, <<458, 458, 1, 2>>,
     <<459, 475, 2, 1>>, <<478, 494, 2, 1>>, <<497, 497, 1, 2>>, <<498, 500, 2, 1>>,
     <<502, 502, 1, -97>>, <<503, 503, 1, -56>>, <<504, 542, 2, 1>>, <<544, 544, 1, -130>>,
     <<546, 562, 2, 1>>, <<570, 570, 1, 10795>>, <<571, 571, 1, 1>>, <<573, 573, 1, -163>>,
     <<574, 574, 1, 10792>>, <<577, 577, 1, 1>>, <<579, 579, 1, -195>>, <<580, 580, 1, 69>>,
     <<581, 581, 1, 71>>, <<582, 590, 2, 1>>, <<880, 882, 2, 1>>, <<886, 886, 1, 1>>,
     <<895, 895, 1, 116>>, <<902, 902, 1, 38>>, <<904, 906, 1, 37>>, <<908, 908, 1, 64>>,
     <<910, 911, 1, 63>>, <<913, 929, 1, 32>>, <<931, 939, 1, 32>>, <<975, 975, 1, 8>>,
     <<984, 1006, 2, 1>>, <<1012, 1012, 1, -60>>, <<1015, 1015, 1, 1>>, <<1017, 1017, 1, -7>>,
     <<1018, 1018, 1, 1>>, <<1021, 1023, 1, -130>>, <<1024, 1039, 1, 80>>, <<1040, 1071, 1, 32>>,
     <<1120, 1152, 2, 1>>, <<1162, 1214, 2, 1>>, <<1216, 1216, 1, 15>>, <<1217, 1229, 2, 1>>,
     <<1232, 1326, 2, 1>>, <<1329, 1366, 1, 48>>, <<4256, 4293, 1, 7264>>, <<4295, 4295, 1, 7264>>,
     <<4301, 4301, 1, 7264>>, <<5024, 5103, 1, 38864>>, <<5104, 5109, 1, 8>>, <<7312, 7354, 1, -3008>>,
     <<7357, 7359, 1, -3008>>, <<7680, 7828, 2, 1>>, <<7838, 7838, 1, -7615>>, <<7840, 7934, 2, 1>>,
     <<7944, 7951, 1, -8>>, <<7960, 7965, 1, -8>>, <<7976, 7983, 1, -8>>, <<7992, 7999, 1, -8>>,
     <<8008, 8013, 1, -8>>, <<8025, 8031, 2, -8>>, <<8040, 8047, 1, -8>>, <<8072, 8079, 1, -8>>,
     <<8088, 8095, 1, -8>>, <<8104, 8111, 1, -8>>, <<8120, 8121, 1, -8>>, <<8122, 8123, 1, -74>>,
     <<8124, 8124, 1, -9>>, <<8136, 8139, 1, -86>>, <<8140, 8140, 1, -9>>, <<8152, 8153, 1, -8>>,
     <<8154, 8155, 1, -100>>, <<8168, 8169, 1, -8>>, <<8170, 8171, 1, -112>>, <<8172, 8172, 1, -7>>,
     <<8184, 8185, 1, -128>>, <<8186, 8187, 1, -126>>, <<8188, 8188, 1, -9>>, <<8486, 8486, 1, -7517>>,
     <<8490, 8490, 1, -8383>>, <<8491, 8491, 1, -8262>>, <<8498, 8498, 1, 28>>, <<8544, 8559, 1, 16>>,
     <<8579, 8579, 1, 1>>, <<9398, 9423, 1, 26>>, <<11264, 11311, 1, 48>>, <<11360, 11360, 1, 1>>,
     <<11362, 11362, 1, -10743>>, <<11363, 11363, 1, -3814>>, <<11364, 11364, 1, -10727>>, <<11367, 11371, 2, 1>>,
     <<11373, 11373, 1, -10780>>, <<11374, 11374, 1, -10749>>, <<11375, 11375, 1, -10783>>, <<11376, 11376, 1, -10782>>,
     <<11378, 11378, 1, 1>>, <<11381, 11381, 1, 1>>, <<11390, 11391, 1, -10815>>, <<11392, 11490, 2, 1>>,
     <<11499, 11501, 2, 1>>, <<11506, 11506, 1, 1>>, <<42560, 42604, 2, 1>>, <<42624, 42650, 2, 1>>,
     <<42786, 42798, 2, 1>>, <<42802, 42862, 2, 1>>, <<42873, 42875, 2, 1>>, <<42877, 42877, 1, -35332>>,
     <<42878, 42886, 2, 1>>, <<42891, 42891, 1, 1>>, <<42893, 42893, 1, -42280>>, <<42896, 42898, 2, 1>>,
     <<42902, 42920, 2, 1>>, <<42922, 42922, 1, -42308>>, <<42923, 42923, 1, -42319>>, <<42924, 42924, 1, -42315>>,
     <<42925, 42925, 1, -42305>>, <<42926, 42926, 1, -42308>>, <<42928, 42928, 1, -42258>>, <<42929, 42929, 1, -42282>>,
     <<42930, 42930, 1, -42261>>, <<42931, 42931, 1, 928>>, <<42932, 42946, 2, 1>>, <<42948, 42948, 1, -48>>,
     <<42949, 42949, 1, -42307>>, <<42950, 42950, 1, -35384>>, <<42951, 42953, 2, 1>>, <<42960, 42960, 1, 1>>,
     <<42966, 42968, 2, 1>>, <<42997, 42997, 1, 1>>, <<65313, 65338, 1, 32>>, <<66560, 66599, 1, 40>>,
     <<66736, 66771, 1, 40>>, <<66928, 66964, 2, 39>>, <<66929, 66937, 2, 39>>, <<66941, 66953, 2, 39>>,
     <<66957, 66961, 2, 39>>, <<66965, 66965, 1, 39>>, <<68736, 68786, 1, 64>>, <<71840, 71871, 1, 32>>,
     <<93760, 93791, 1, 32>>, <<125184, 125217, 1, 34>>}

LowerDomain ==
    UNION {{r[1] + k * r[3] : k \in 0..((r[2] - r[1]) \div r[3])} : r \in LowerRanges}
LowerMap ==
    [ch \in LowerDomain |->
        ch + (CHOOSE r \in LowerRanges :
                 /\ r[1] <= ch /\ ch <= r[2]
                 /\ (ch - r[1]) % r[3] = 0)[4]]

(* The one code point whose lower case is two code points: U+0130, capital I
   with dot above, becomes i followed by the combining dot above. *)
CapitalIDotAbove == 304
LowerIDotAbove == <<105, 775>>

(* The lower case of one code point, whatever stands around it. *)
LowerChar(ch) ==
    IF ch = CapitalIDotAbove THEN LowerIDotAbove
    ELSE IF ch \in LowerDomain THEN <<LowerMap[ch]>>
    ELSE <<ch>>

(* The Unicode properties Cased and Case_Ignorable, as intervals
   <<first, last>> of code points. *)
CasedIntervals ==
    {<<65, 90>>, <<97, 122>>, <<170, 170>>, <<181, 181>>, <<186, 186>>, <<192, 214>>,
     <<216, 246>>, <<248, 442>>, <<444, 447>>, <<452, 659>>, <<661, 696>>, <<704, 705>>,
     <<736, 740>>, <<837, 837>>, <<880, 883>>, <<886, 887>>, <<890, 893>>, <<895, 895>>,
     <<902, 902>>, <<904, 906>>, <<908, 908>>, <<910, 929>>, <<931, 1013>>, <<1015, 1153>>,
     <<1162, 1327>>, <<1329, 1366>>, <<1376, 1416>>, <<4256, 4293>>, <<4295, 4295>>, <<4301, 4301>>,
     <<4304, 4346>>, <<4349, 4351>>, <<5024, 5109>>, <<5112, 5117>>, <<7296, 7304>>, <<7312, 7354>>,
     <<7357, 7359>>, <<7424, 7615>>, <<7680, 7957>>, <<7960, 7965>>, <<7968, 8005>>, <<8008, 8013>>,
     <<8016, 8023>>, <<8025, 8025>>, <<8027, 8027>>, <<8029, 8029>>, <<8031, 8061>>, <<8064, 8116>>,
     <<8118, 8124>>, <<8126, 8126>>, <<8130, 8132>>, <<8134, 8140>>, <<8144, 8147>>, <<8150, 8155>>,
     <<8160, 8172>>, <<8178, 8180>>, <<8182, 8188>>, <<8305, 8305>>, <<8319, 8319>>, <<8336, 8348>>,
     <<8450, 8450>>, <<8455, 8455>>, <<8458, 8467>>, <<8469, 8469>>, <<8473, 8477>>, <<8484, 8484>>,
     <<8486, 8486>>, <<8488, 8488>>, <<8490, 8493>>, <<8495, 8500>>, <<8505, 8505>>, <<8508, 8511>>,
     <<8517, 8521>>, <<8526, 8526>>, <<8544, 8575>>, <<8579, 8580>>, <<9398, 9449>>, <<11264, 11492>>,
     <<11499, 11502>>, <<11506, 11507>>, <<11520, 11557>>, <<11559, 11559>>, <<11565, 11565>>, <<42560, 42605>>,
     <<42624, 42653>>, <<42786, 42887>>, <<42891, 42894>>, <<42896, 42954>>, <<42960, 42961>>, <<42963, 42963>>,
     <<42965, 42969>>, <<42997, 42998>>, <<43000, 43002>>, <<43824, 43866>>, <<43868, 43880>>, <<43888, 43967>>,
     <<64256, 64262>>, <<64275, 64279>>, <<65313, 65338>>, <<65345, 65370>>, <<66560, 66639>>, <<66736, 66771>>,
     <<66776, 66811>>, <<66928, 66938>>, <<66940, 66954>>, <<66956, 66962>>, <<66964, 66965>>, <<66967, 66977>>,
     <<66979, 66993>>, <<66995, 67001>>, <<67003, 67004>>, <<67456, 67456>>, <<67459, 67461>>, <<67463, 67504>>,
     <<67506, 67514>>, <<68736, 68786>>, <<68800, 68850>>, <<71840, 71903>>, <<93760, 93823>>, <<119808, 119892>>,
     <<119894, 119964>>, <<119966, 119967>>, <<119970, 119970>>, <<119973, 119974>>, <<119977, 119980>>, <<119982, 119993>>,
     <<119995, 119995>>, <<119997, 120003>>, <<120005, 120069>>, <<120071, 120074>>, <<120077, 120084>>, <<120086, 120092>>,
     <<120094, 120121>>, <<120123, 120126>>, <<120128, 120132>>, <<120134, 120134>>, <<120138, 120144>>, <<120146, 120485>>,
     <<120488, 120512>>, <<120514, 120538>>, <<120540, 120570>>, <<120572, 120596>>, <<120598, 120628>>, <<120630, 120654>>,
     <<120656, 120686>>, <<120688, 120712>>, <<120714, 120744>>, <<120746, 120770>>, <<120772, 120779>>, <<122624, 122633>>,
     <<122635, 122654>>, <<125184, 125251>>, <<127280, 127305>>, <<127312, 127337>>, <<127344, 127369>>}
Cased == UNION {r[1]..r[2] : r \in CasedIntervals}

CaseIgnorableIntervals ==
    {<<39, 39>>, <<46, 46>>, <<58, 58>>, <<94, 94>>, <<96, 96>>, <<168, 168>>,
     <<173, 173>>, <<175, 175>>, <<180, 180>>, <<183, 184>>, <<688, 879>>, <<884, 885>>,
     <<890, 890>>, <<900, 901>>, <<903, 903>>, <<1155, 1161>>, <<1369, 1369>>, <<1375, 1375>>,
     <<1425, 1469>>, <<1471, 1471>>, <<1473, 1474>>, <<1476, 1477>>, <<1479, 1479>>, <<1524, 1524>>,
     <<1536, 1541>>, <<1552, 1562>>, <<1564, 1564>>, <<1600, 1600>>, <<1611, 1631>>, <<1648, 1648>>,
     <<1750, 1757>>, <<1759, 1768>>, <<1770, 1773>>, <<1807, 1807>>, <<1809, 1809>>, <<1840, 1866>>,
     <<1958, 1968>>, <<2027, 2037>>, <<2042, 2042>>, <<2045, 2045>>, <<2070, 2093>>, <<2137, 2139>>,
     <<2184, 2184>>, <<2192, 2193>>, <<2200, 2207>>, <<2249, 2306>>, <<2362, 2362>>, <<2364, 2364>>,
     <<2369, 2376>>, <<2381, 2381>>, <<2385, 2391>>, <<2402, 2403>>, <<2417, 2417>>, <<2433, 2433>>,
     <<2492, 2492>>, <<2497, 2500>>, <<2509, 2509>>, <<2530, 2531>>, <<2558, 2558>>, <<2561, 2562>>,
     <<2620, 2620>>, <<2625, 2626>>, <<2631, 2632>>, <<2635, 2637>>, <<2641, 2641>>, <<2672, 2673>>,
     <<2677, 2677>>, <<2689, 2690>>, <<2748, 2748>>, <<2753, 2757>>, <<2759, 2760>>, <<2765, 2765>>,
     <<2786, 2787>>, <<2810, 2815>>, <<2817, 2817>>, <<2876, 2876>>, <<2879, 2879>>, <<2881, 2884>>,
     <<2893, 2893>>, <<2901, 2902>>, <<2914, 2915>>, <<2946, 2946>>, <<3008, 3008>>, <<3021, 3021>>,
     <<3072, 3072>>, <<3076, 3076>>, <<3132, 3132>>, <<3134, 3136>>, <<3142, 3144>>, <<3146, 3149>>,
     <<3157, 3158>>, <<3170, 3171>>, <<3201, 3201>>, <<3260, 3260>>, <<3263, 3263>>, <<3270, 3270>>,
     <<3276, 3277>>, <<3298, 3299>>, <<3328, 3329>>, <<3387, 3388>>, <<3393, 3396>>, <<3405, 3405>>,
     <<3426, 3427>>, <<3457, 3457>>, <<3530, 3530>>, <<3538, 3540>>, <<3542, 3542>>, <<3633, 3633>>,
     <<3636, 3642>>, <<3654, 3662>>, <<3761, 3761>>, <<3764, 3772>>, <<3782, 3782>>, <<3784, 3789>>,
     <<3864, 3865>>, <<3893, 3893>>, <<3895, 3895>>, <<3897, 3897>>, <<3953, 3966>>, <<3968, 3972>>,
     <<3974, 3975>>, <<3981, 3991>>, <<3993, 4028>>, <<4038, 4038>>, <<4141, 4144>>, <<4146, 4151>>,
     <<4153, 4154>>, <<4157, 4158>>, <<4184, 4185>>, <<4190, 4192>>, <<4209, 4212>>, <<4226, 4226>>,
     <<4229, 4230>>, <<4237, 4237>>, <<4253, 4253>>, <<4348, 4348>>, <<4957, 4959>>, <<5906, 5908>>,
     <<5938, 5939>>, <<5970, 5971>>, <<6002, 6003>>, <<6068, 6069>>, <<6071, 6077>>, <<6086, 6086>>,
     <<6089, 6099>>, <<6103, 6103>>, <<6109, 6109>>, <<6155, 6159>>, <<6211, 6211>>, <<6277, 6278>>,
     <<6313, 6313>>, <<6432, 6434>>, <<6439, 6440>>, <<6450, 6450>>, <<6457, 6459>>, <<6679, 6680>>,
     <<6683, 6683>>, <<6742, 6742>>, <<6744, 6750>>, <<6752, 6752>>, <<6754, 6754>>, <<6757, 6764>>,
     <<6771, 6780>>, <<6783, 6783>>, <<6823, 6823>>, <<6832, 6862>>, <<6912, 6915>>, <<6964, 6964>>,
     <<6966, 6970>>, <<6972, 6972>>, <<6978, 6978>>, <<7019, 7027>>, <<7040, 7041>>, <<7074, 7077>>,
     <<7080, 7081>>, <<7083, 7085>>, <<7142, 7142>>, <<7144, 7145>>, <<7149, 7149>>, <<7151, 7153>>,
     <<7212, 7219>>, <<7222, 7223>>, <<7288, 7293>>, <<7376, 7378>>, <<7380, 7392>>, <<7394, 7400>>,
     <<7405, 7405>>, <<7412, 7412>>, <<7416, 7417>>, <<7468, 7530>>, <<7544, 7544>>, <<7579, 7679>>,
     <<8125, 8125>>, <<8127, 8129>>, <<8141, 8143>>, <<8157, 8159>>, <<8173, 8175>>, <<8189, 8190>>,
     <<8203, 8207>>, <<8216, 8217>>, <<8228, 8228>>, <<8231, 8231>>, <<8234, 8238>>, <<8288, 8292>>,
     <<8294, 8303>>, <<8305, 8305>>, <<8319, 8319>>, <<8336, 8348>>, <<8400, 8432>>, <<11388, 11389>>,
     <<11503, 11505>>, <<11631, 11631>>, <<11647, 11647>>, <<11744, 11775>>, <<11823, 11823>>, <<12293, 12293>>,
     <<12330, 12333>>, <<12337, 12341>>, <<12347, 12347>>, <<12441, 12446>>, <<12540, 12542>>, <<40981, 40981>>,
     <<42232, 42237>>, <<42508, 42508>>, <<42607, 42610>>, <<42612, 42621>>, <<42623, 42623>>, <<42652, 42655>>,
     <<42736, 42737>>, <<42752, 42785>>, <<42864, 42864>>, <<42888, 42890>>, <<42994, 42996>>, <<43000, 43001>>,
     <<43010, 43010>>, <<43014, 43014>>, <<43019, 43019>>, <<43045, 43046>>, <<43052, 43052>>, <<43204, 43205>>,
     <<43232, 43249>>, <<43263, 43263>>, <<43302, 43309>>, <<43335, 43345>>, <<43392, 43394>>, <<43443, 43443>>,
     <<43446, 43449>>, <<43452, 43453>>, <<43471, 43471>>, <<43493, 43494>>, <<43561, 43566>>, <<43569, 43570>>,
     <<43573, 43574>>, <<43587, 43587>>, <<43596, 43596>>, <<43632, 43632>>, <<43644, 43644>>, <<43696, 43696>>,
     <<43698, 43700>>, <<43703, 43704>>, <<43710, 43711>>, <<43713, 43713>>, <<43741, 43741>>, <<43756, 43757>>,
     <<43763, 43764>>, <<43766, 43766>>, <<43867, 43871>>, <<43881, 43883>>, <<44005, 44005>>, <<44008, 44008>>,
     <<44013, 44013>>, <<64286, 64286>>, <<64434, 64450>>, <<65024, 65039>>, <<65043, 65043>>, <<65056, 65071>>,
     <<65106, 65106>>, <<65109, 65109>>, <<65279, 65279>>, <<65287, 65287>>, <<65294, 65294>>, <<65306, 65306>>,
     <<65342, 65342>>, <<65344, 65344>>, <<65392, 65392>>, <<65438, 65439>>, <<65507, 65507>>, <<65529, 65531>>,
     <<66045, 66045>>, <<66272, 66272>>, <<66422, 66426>>, <<67456, 67461>>, <<67463, 67504>>, <<67506, 67514>>,
     <<68097, 68099>>, <<68101, 68102>>, <<68108, 68111>>, <<68152, 68154>>, <<68159, 68159>>, <<68325, 68326>>,
     <<68900, 68903>>, <<69291, 69292>>, <<69446, 69456>>, <<69506, 69509>>, <<69633, 69633>>, <<69688, 69702>>,
     <<69744, 69744>>, <<69747, 69748>>, <<69759, 69761>>, <<69811, 69814>>, <<69817, 69818>>, <<69821, 69821>>,
     <<69826, 69826>>, <<69837, 69837>>, <<69888, 69890>>, <<69927, 69931>>, <<69933, 69940>>, <<70003, 70003>>,
     <<70016, 70017>>, <<70070, 70078>>, <<70089, 70092>>, <<70095, 70095>>, <<70191, 70193>>, <<70196, 70196>>,
     <<70198, 70199>>, <<70206, 70206>>, <<70367, 70367>>, <<70371, 70378>>, <<70400, 70401>>, <<70459, 70460>>,
     <<70464, 70464>>, <<70502, 70508>>, <<70512, 70516>>, <<70712, 70719>>, <<70722, 70724>>, <<70726, 70726>>,
     <<70750, 70750>>, <<70835, 70840>>, <<70842, 70842>>, <<70847, 70848>>, <<70850, 70851>>, <<71090, 71093>>,
     <<71100, 71101>>, <<71103, 71104>>, <<71132, 71133>>, <<71219, 71226>>, <<71229, 71229>>, <<71231, 71232>>,
     <<71339, 71339>>, <<71341, 71341>>, <<71344, 71349>>, <<71351, 71351>>, <<71453, 71455>>, <<71458, 71461>>,
     <<71463, 71467>>, <<71727, 71735>>, <<71737, 71738>>, <<71995, 71996>>, <<71998, 71998>>, <<72003, 72003>>,
     <<72148, 72151>>, <<72154, 72155>>, <<72160, 72160>>, <<72193, 72202>>, <<72243, 72248>>, <<72251, 72254>>,
     <<72263, 72263>>, <<72273, 72278>>, <<72281, 72283>>, <<72330, 72342>>, <<72344, 72345>>, <<72752, 72758>>,
     <<72760, 72765>>, <<72767, 72767>>, <<72850, 72871>>, <<72874, 72880>>, <<72882, 72883>>, <<72885, 72886>>,
     <<73009, 73014>>, <<73018, 73018>>, <<73020, 73021>>, <<73023, 73029>>, <<73031, 73031>>, <<73104, 73105>>,
     <<73109, 73109>>, <<73111, 73111>>, <<73459, 73460>>, <<78896, 78904>>, <<92912, 92916>>, <<92976, 92982>>,
     <<92992, 92995>>, <<94031, 94031>>, <<94095, 94111>>, <<94176, 94177>>, <<94179, 94180>>, <<110576, 110579>>,
     <<110581, 110587>>, <<110589, 110590>>, <<113821, 113822>>, <<113824, 113827>>, <<118528, 118573>>, <<118576, 118598>>,
     <<119143, 119145>>, <<119155, 119170>>, <<119173, 119179>>, <<119210, 119213>>, <<119362, 119364>>, <<121344, 121398>>,
     <<121403, 121452>>, <<121461, 121461>>, <<121476, 121476>>, <<121499, 121503>>, <<121505, 121519>>, <<122880, 122886>>,
     <<122888, 122904>>, <<122907, 122913>>, <<122915, 122916>>, <<122918, 122922>>, <<123184, 123197>>, <<123566, 123566>>,
     <<123628, 123631>>, <<125136, 125142>>, <<125252, 125259>>, <<127995, 127999>>, <<917505, 917505>>, <<917536, 917631>>,
     <<917760, 917999>>}
CaseIgnorable == UNION {r[1]..r[2] : r \in CaseIgnorableIntervals}

(* The capital sigma U+03A3 becomes the final sigma U+03C2 when the nearest
   character before it that is not case-ignorable is cased, and the nearest
   one after it that is not case-ignorable, if there is one, is not cased;
   otherwise it becomes U+03C3. *)
CapitalSigma == 931
FinalSigma == 962
SmallSigma == 963
IsFinalSigma(text, i) ==
    LET before == {j \in 1..(i - 1) : text[j] \notin CaseIgnorable}
        after == {j \in (i + 1)..Len(text) : text[j] \notin CaseIgnorable}
    IN  /\ before # {}
        /\ text[CHOOSE j \in before : \A k \in before : k <= j] \in Cased
        /\ \/ after = {}
           \/ text[CHOOSE j \in after : \A k \in after : j <= k] \notin Cased

LowerAt(text, i) ==
    IF text[i] = CapitalSigma
    THEN <<IF IsFinalSigma(text, i) THEN FinalSigma ELSE SmallSigma>>
    ELSE LowerChar(text[i])

RECURSIVE LowerUpTo(_, _)
LowerUpTo(text, n) ==
    IF n = 0 THEN << >> ELSE LowerUpTo(text, n - 1) \o LowerAt(text, n)

Lower(text) == LowerUpTo(text, Len(text))

(* needle in hay, for strings *)
Contains(hay, needle) ==
    \E k \in 0..(Len(hay) - Len(needle)) : SubSeq(hay, k + 1, k + Len(needle)) = needle

(* "true" *)
TrueLiteral == <<116, 114, 117, 101>>

(* "true" in atomized.is_atomic.lower(), demo_complete.py line 105 *)
AtomizerParseCaseSensitive(text) == Contains(text, TrueLiteral)
AtomizerParse(text) == Contains(Lower(text), TrueLiteral)

(* "true" in verification.is_valid.lower(), demo_complete.py line 154 *)
VerifierParse(text) == Contains(Lower(text), TrueLiteral)

Text(src, len) == [src |-> src, len |-> len]

(* text[:n] *)
Slice(text, n) == [text EXCEPT !.len = IF @ < n THEN @ ELSE n]

(* r['result'][:200], demo_complete.py line 139 *)
ResultPreview == 200
(* final_result[:1000], demo_complete.py line 153 *)
VerifyLimitAsPreview == ResultPreview
VerifyLimit == 1000

(* sample_subtasks, demo_complete.py lines 125-129 *)
sample_subtasks == <<"Investigar información relevante",
                     "Analizar datos y tendencias",
                     "Generar conclusiones">>

(* formatted_results, demo_complete.py lines 138-141: one block per entry of
   subtask_results, numbered from 1, the result cut to its first 200
   characters and followed by "..." *)
FormatResults(sr) ==
    [k \in 1..Len(sr) |->
        [label |-> k, task |-> sr[k].task,
         result |-> Slice(sr[k].result, ResultPreview), suffix |-> "..."]]

(* What the backend may answer. *)
Goals == {"What is 2+2?", "Write a market report"}
(* "True, because" *)
TextTrueBecause == <<84, 114, 117, 101, 44, 32, 98, 101, 99, 97, 117, 115, 101>>
(* "TRUE" *)
TextUpperTrue == <<84, 82, 85, 69>>
(* "The result is false" *)
TextResultIsFalse ==
     <<84, 104, 101, 32, 114, 101, 115, 117, 108, 116, 32, 105, 115, 32, 102, 97, 108, 115, 101>>
FlagTexts == {<< >>, TextTrueBecause, TextUpperTrue, TextResultIsFalse}
PlanSubtasks(g) == {<< >>, <<"A", "B">>, sample_subtasks, <<g>>}
ResultLens == {0, 200, 201, 1001}

(* The stage a position of the run invokes, the model it runs under
   (the dspy.context blocks), and the fields it passes. *)
StagePcs == {"atomizer", "executor", "planner", "subtask", "aggregator", "verifier"}
StageOf(at) == IF at = "subtask" THEN "executor" ELSE at
LMOf(at) == IF at \in {"atomizer", "subtask", "verifier"} THEN "azure/gpt-4o" ELSE "azure/gpt-5-chat"
InputOf(at) ==
    CASE at = "atomizer" -> [goal |-> goal]
      [] at = "executor" -> [task |-> <<goal>>]
      [] at = "planner" -> [goal |-> goal]
      [] at = "subtask" -> [task |-> <<goal, " - ", sample_subtasks[Len(subtask_results) + 1]>>]
      [] at = "aggregator" -> [original_goal |-> goal,
                               subtask_results |-> FormatResults(subtask_results)]
      [] at = "verifier" -> [goal |-> goal, result |-> Slice(final_result[1], VerifyLimit)]
StageCall(at, ok) == [stage |-> StageOf(at), lm |-> LMOf(at), input |-> InputOf(at), ok |-> ok]

PipeInit ==
    /\ pc = "idle"
    /\ goal = ""
    /\ atomized = None
    /\ is_atomic = None
    /\ plan = None
    /\ subtask_results = << >>
    /\ final_result = None
    /\ verification = None
    /\ is_valid = None
    /\ results = None
    /\ calls = << >>

(* solve_with_roma(goal) up to its first stage, demo_complete.py lines 65-99:
   the two clients and the five modules are built, results is initialised. *)
Call(g) ==
    /\ pc = "idle"
    /\ goal' = g
    /\ results' = Some([goal |-> g, steps |-> << >>, final_result |-> None, is_valid |-> None])
    /\ pc' = "atomizer"
    /\ UNCHANGED <<atomized, is_atomic, plan, subtask_results, final_result,
                   verification, is_valid, calls>>

AddStep(step) == Some([results[1] EXCEPT !.steps = Append(@, step)])

(* if is_atomic: ... else: ..., demo_complete.py lines 109 and 116 *)
BranchInverted(flag) == IF flag THEN "planner" ELSE "executor"
Branch(flag) == IF flag THEN "executor" ELSE "planner"

(* The for loop over sample_subtasks, demo_complete.py line 131: after `done`
   turns the loop goes on with the next subtask or ends, and the aggregator
   step follows. *)
LoopThenReplan(done) == IF done < Len(sample_subtasks) THEN "subtask" ELSE "planner"
LoopEndsEarly(done) == IF done < Len(sample_subtasks) - 1 THEN "subtask" ELSE "aggregator"
Loop(done) == IF done < Len(sample_subtasks) THEN "subtask" ELSE "aggregator"

(* After the verifier the run stores the result and the flag and returns,
   whatever the flag is: demo_complete.py lines 157-160. *)
ReturnOrRetry(flag) == IF flag THEN "done" ELSE "atomizer"
Return(flag) == "done"

(* PASO 1, demo_complete.py lines 101-107, and the branch at line 109 *)
Atomizer ==
    /\ pc = "atomizer"
    /\ \E answer \in FlagTexts :
          /\ atomized' = Some(answer)
          /\ is_atomic' = Some(AtomizerParse(answer))
          /\ results' = AddStep([module |-> "atomizer", is_atomic |-> AtomizerParse(answer)])
          /\ pc' = Branch(AtomizerParse(answer))
    /\ calls' = Append(calls, StageCall("atomizer", TRUE))
    /\ UNCHANGED <<goal, plan, subtask_results, final_result, verification, is_valid>>

(* The atomic branch, demo_complete.py lines 109-115 *)
Executor ==
    /\ pc = "executor"
    /\ \E len \in ResultLens :
          LET execution == Text(Len(calls) + 1, len) IN
          /\ final_result' = Some(execution)
          /\ results' = AddStep([module |-> "executor", result |-> execution])
    /\ calls' = Append(calls, StageCall("executor", TRUE))
    /\ pc' = "verifier"
    /\ UNCHANGED <<goal, atomized, is_atomic, plan, subtask_results, verification, is_valid>>

(* The planner call, demo_complete.py lines 116-124 *)
Planner ==
    /\ pc = "planner"
    /\ \E subtasks \in PlanSubtasks(goal) :
          plan' = Some([subtasks |-> subtasks, strategy |-> "strategy"])
    /\ results' = AddStep([module |-> "planner", strategy |-> "strategy"])
    /\ subtask_results' = << >>
    /\ calls' = Append(calls, StageCall("planner", TRUE))
    /\ pc' = Loop(0)
    /\ UNCHANGED <<goal, atomized, is_atomic, final_result, verification, is_valid>>

(* One turn of the loop over sample_subtasks, demo_complete.py lines 131-135 *)
ExecutorSubtask ==
    /\ pc = "subtask"
    /\ \E len \in ResultLens :
          LET sub_exec == Text(Len(calls) + 1, len)
              subtask == sample_subtasks[Len(subtask_results) + 1] IN
          subtask_results' = Append(subtask_results, [task |-> subtask, result |-> sub_exec])
    /\ calls' = Append(calls, StageCall("subtask", TRUE))
    /\ pc' = Loop(Len(subtask_results) + 1)
    /\ UNCHANGED <<goal, atomized, is_atomic, plan, final_result, verification, is_valid, results>>

(* The aggregator call, demo_complete.py lines 137-148 *)
Aggregator ==
    /\ pc = "aggregator"
    /\ \E len \in ResultLens :
          final_result' = Some(Text(Len(calls) + 1, len))
    /\ calls' = Append(calls, StageCall("aggregator", TRUE))
    /\ pc' = "verifier"
    /\ UNCHANGED <<goal, atomized, is_atomic, plan, subtask_results, verification, is_valid, results>>

(* PASO 5 and the return, demo_complete.py lines 150-160 *)
Verifier ==
    /\ pc = "verifier"
    /\ \E answer \in FlagTexts :
          /\ verification' = Some(answer)
          /\ is_valid' = Some(VerifierParse(answer))
          /\ results' = Some([results[1] EXCEPT !.final_result = final_result,
                                                !.is_valid = Some(VerifierParse(answer))])
          /\ pc' = Return(VerifierParse(answer))
    /\ calls' = Append(calls, StageCall("verifier", TRUE))
    /\ UNCHANGED <<goal, atomized, is_atomic, plan, subtask_results, final_result>>

(* A stage call that raises: nothing in solve_with_roma catches it, so the run
   ends there and the handler of demo_complete.py lines 176-189 reports it. *)
StageRaises ==
    /\ pc \in StagePcs
    /\ calls' = Append(calls, StageCall(pc, FALSE))
    /\ pc' = "failed"
    /\ UNCHANGED <<goal, atomized, is_atomic, plan, subtask_results, final_result,
                   verification, is_valid, results>>

(* What the caller of solve_with_roma holds afterwards, demo_complete.py lines
   176-189: the returned dictionary, or only the exception that left the
   function (its locals, subtask_results among them, are gone; the code
   attaches neither the finished subtasks nor the failing one to it). *)
Outcome ==
    IF pc = "done"
    THEN [kind |-> "result", value |-> results, subtask_results |-> << >>, failed_task |-> None]
    ELSE IF pc = "failed"
    THEN [kind |-> "error", value |-> None, subtask_results |-> << >>, failed_task |-> None]
    ELSE [kind |-> "none", value |-> None, subtask_results |-> << >>, failed_task |-> None]

NextPipe ==
    \/ \E g \in Goals : Call(g) /\ UNCHANGED <<routerVars, threadVars, parseVars>>
    \/ Atomizer /\ UNCHANGED <<routerVars, threadVars, parseVars>>
    \/ Executor /\ UNCHANGED <<routerVars, threadVars, parseVars>>
    \/ Planner /\ UNCHANGED <<routerVars, threadVars, parseVars>>
    \/ ExecutorSubtask /\ UNCHANGED <<routerVars, threadVars, parseVars>>
    \/ Aggregator /\ UNCHANGED <<routerVars, threadVars, parseVars>>
    \/ Verifier /\ UNCHANGED <<routerVars, threadVars, parseVars>>
    \/ StageRaises /\ UNCHANGED <<routerVars, threadVars, parseVars>>

-----------------------------------------------------------------------------
(* The boolean reading on its own: every text over a small alphabet, read at
   both call sites. *)

MaxTextLen == 5
(* t, T, r, u, U, e, E, x, the capital I with dot above and the capital
   sigma *)
Alphabet == {116, 84, 114, 117, 85, 101, 69, 120, CapitalIDotAbove, CapitalSigma}
ParseTexts == UNION {[1..n -> Alphabet] : n \in 0..MaxTextLen}

ParseInit ==
    /\ parse_text = << >>
    /\ parse_atomic = None
    /\ parse_valid = None

ParseAtomizerText ==
    /\ parse_atomic = None
    /\ parse_atomic' = Some(AtomizerParse(parse_text))
    /\ UNCHANGED <<parse_text, parse_valid, routerVars, threadVars, pipeVars>>

ParseVerifierText ==
    /\ parse_valid = None
    /\ parse_valid' = Some(VerifierParse(parse_text))
    /\ UNCHANGED <<parse_text, parse_atomic, routerVars, threadVars, pipeVars>>

NextParse == ParseAtomizerText \/ ParseVerifierText

InitPipe == RouterInitWith(SampleAzureConfig) /\ ThreadInit /\ PipeInit /\ ParseInit

InitParse ==
    /\ RouterInitWith(SampleAzureConfig) /\ ThreadInit /\ PipeInit
    /\ parse_text \in ParseTexts
    /\ parse_atomic = None
    /\ parse_valid = None

Init == RouterInit /\ ThreadInit /\ PipeInit /\ ParseInit

Next ==
    \E c \in TaskComplexity, p \in TaskPriority, d \in TaskDomain :
        GetModel(c, p, d) /\ UNCHANGED <<threadVars, pipeVars, parseVars>>

Spec == Init /\ [][Next]_vars

SpecConc == Init /\ [][NextConc]_vars

SpecPipe == InitPipe /\ [][NextPipe]_vars

SpecPipeFair == SpecPipe /\ WF_vars(NextPipe)

SpecParse == InitParse /\ [][NextParse]_vars

-----------------------------------------------------------------------------
(* Properties of the routing step and the client cache *)

(* C1: for every (complexity, priority, domain) triple the routing step of
   get_model yields a key of the model registry, in every state of the
   router, and no get_model call ends in the KeyError of the registry lookup. *)
RoutingTotal ==
    /\ \A c \in TaskComplexity, p \in TaskPriority, d \in TaskDomain :
          ResolveKey(routing_matrix, c, p, d) \in DOMAIN model_registry
    /\ last.outcome # "none" =>
          /\ last.outcome # "KeyError"
          /\ last.key \in DOMAIN model_registry

(* A call for a triple whose complexity the matrix does not hold has returned
   a client. *)
RoutingTotalWitness ==
    /\ last.outcome = "return"
    /\ last.complexity = "trivial"
    /\ last.priority = "cost"
    /\ last.domain = "realtime"
    /\ last.key \in DOMAIN model_registry

(* The three-level lookup the routing is meant to compute: the entry of the
   triple, else the entry of (complexity, priority, general), else "gpt4o". *)
MatrixEntries(matrix) ==
    UNION {UNION {{<<c, p, d>> : d \in DOMAIN matrix[c][p]} : p \in DOMAIN matrix[c]} :
           c \in DOMAIN matrix}
ReferenceLookup(matrix, c, p, d) ==
    IF <<c, p, d>> \in MatrixEntries(matrix) THEN matrix[c][p][d]
    ELSE IF <<c, p, "general">> \in MatrixEntries(matrix) THEN matrix[c][p]["general"]
    ELSE "gpt4o"

(* C2: the key a get_model call resolved equals the three-level reference
   lookup of its triple, whatever the cache holds and whatever was called
   before. *)
RoutingMatchesReference ==
    last.outcome # "none" =>
        last.key = ReferenceLookup(routing_matrix, last.complexity, last.priority, last.domain)

(* A call on a warm cache took the second level: (ultra, quality, document)
   has no entry of its own and resolved to the general entry of its pair. *)
RoutingMatchesReferenceWitness ==
    /\ last.outcome = "return"
    /\ ~last.constructed
    /\ last.complexity = "ultra" /\ last.priority = "quality" /\ last.domain = "document"
    /\ last.key = "gpt5-chat"
    /\ Cardinality(DOMAIN model_cache) >= 2

(* C3: in sequential use, two returns for the same key gave the same handle,
   two returns for different keys gave different handles, and the client of
   every returned key was constructed exactly once. *)
CacheSingleton ==
    /\ \A r1 \in returned, r2 \in returned : (r1[1] = r2[1]) <=> (r1[2] = r2[2])
    /\ \A r \in returned : Len(lm_objects[r[1]]) = 1
    /\ \A k \in DOMAIN lm_objects : Len(lm_objects[k]) <= 1

(* A key was served from the cache after its client and another key's client
   had been constructed. *)
CacheSingletonWitness ==
    /\ last.outcome = "return"
    /\ ~last.constructed
    /\ Cardinality(returned) >= 2
    /\ Len(lm_objects[last.key]) = 1

(* C4: under concurrent callers at most one client is constructed per key, and
   all callers resolving to one key receive the same handle. *)
OneConstructionPerKey ==
    /\ \A k \in DOMAIN lm_objects : Len(lm_objects[k]) <= 1
    /\ \A r1 \in returned, r2 \in returned : (r1[1] = r2[1]) => (r1[2] = r2[2])

-----------------------------------------------------------------------------
(* Properties of the pipeline *)

(* The text, read without regard to case, holds t, r, u, e in a row. *)
SaysTrue(text) ==
    \E k \in 1..(Len(text) - 3) :
        /\ text[k] \in {116, 84}
        /\ text[k + 1] \in {114, 82}
        /\ text[k + 2] \in {117, 85}
        /\ text[k + 3] \in {101, 69}

(* The four texts of the specification read true, false, true, false. *)
ExamplesRead ==
    /\ AtomizerParse(TextTrueBecause) /\ VerifierParse(TextTrueBecause)
    /\ ~AtomizerParse(TextResultIsFalse) /\ ~VerifierParse(TextResultIsFalse)
    /\ AtomizerParse(TextUpperTrue) /\ VerifierParse(TextUpperTrue)
    /\ ~AtomizerParse(<< >>) /\ ~VerifierParse(<< >>)

(* C5: the flag read from is_atomic and the flag read from is_valid are true
   exactly when the text, case ignored, contains "true"; the examples of the
   specification read as it says. *)
BooleanParsing ==
    /\ parse_atomic # None => parse_atomic[1] = SaysTrue(parse_text)
    /\ parse_valid # None => parse_valid[1] = SaysTrue(parse_text)
    /\ ExamplesRead

(* A mixed-case "true" after another character was read true at both sites. *)
BooleanParsingWitness ==
    /\ parse_text = <<120, 84, 114, 85, 101>>
    /\ parse_atomic = Some(TRUE)
    /\ parse_valid = Some(TRUE)

Stages == [k \in 1..Len(calls) |-> calls[k].stage]
IsPrefix(s, t) == Len(s) <= Len(t) /\ SubSeq(t, 1, Len(s)) = s
CallsOf(stage) == {k \in 1..Len(calls) : calls[k].stage = stage}

(* C6: once the Atomizer has reported the goal atomic, the stage calls are
   Atomize, one Execute on the goal itself, then Verify, in that order and
   nothing else: no Plan, no Aggregate, no subtask. *)
AtomicPath ==
    is_atomic = Some(TRUE) =>
        /\ IsPrefix(Stages, <<"atomizer", "executor", "verifier">>)
        /\ \A k \in CallsOf("executor") : calls[k].input.task = <<goal>>
        /\ plan = None
        /\ subtask_results = << >>
        /\ pc = "done" => Stages = <<"atomizer", "executor", "verifier">>

(* An atomic goal ran to the end. *)
AtomicPathWitness ==
    /\ pc = "done"
    /\ is_atomic = Some(TRUE)
    /\ Len(calls) = 3

(* C7: when Plan returned the subtasks s1..sn (n >= 1), Aggregate receives
   exactly n entries and its i-th entry is for si. *)
AggregateFollowsPlan ==
    \A k \in CallsOf("aggregator") :
        Len(plan[1].subtasks) >= 1 =>
            /\ Len(calls[k].input.subtask_results) = Len(plan[1].subtasks)
            /\ \A j \in 1..Len(plan[1].subtasks) :
                  calls[k].input.subtask_results[j].task = plan[1].subtasks[j]

(* C8: after Plan returned an empty subtask list no Aggregate call is made and
   the run does not return a result. *)
EmptyPlanFails ==
    (plan # None /\ plan[1].subtasks = << >>) =>
        /\ CallsOf("aggregator") = {}
        /\ pc # "done"

(* C9: a run never plans below the root goal (the planner is called at most
   once, and the atomizer and the planner only on the goal itself), makes at
   most one call per sample subtask and four other stage calls, and once
   started it ends, returning or failing. *)
Terminates ==
    /\ [](/\ Len(calls) <= Len(sample_subtasks) + 4
          /\ Cardinality(CallsOf("planner")) <= 1
          /\ Cardinality(CallsOf("atomizer")) <= 1
          /\ \A k \in CallsOf("planner") \cup CallsOf("atomizer") : calls[k].input.goal = goal)
    /\ (pc = "atomizer") ~> (pc \in {"done", "failed"})

(* A run whose plan held a subtask equal to the goal ended after seven calls. *)
TerminatesWitness ==
    /\ pc = "done"
    /\ plan # None
    /\ plan[1].subtasks = <<goal>>
    /\ Len(calls) = Len(sample_subtasks) + 4

(* C10: Verify is called at most once, only after the result exists, and is
   the last stage call; a run that returns has called it exactly once and
   returns the result of the stage call before it, with the flag read from
   the verifier's text, false included. *)
VerifyOnceAtEnd ==
    /\ Cardinality(CallsOf("verifier")) <= 1
    /\ \A k \in CallsOf("verifier") : k = Len(calls) /\ final_result # None
    /\ pc = "done" =>
          /\ Cardinality(CallsOf("verifier")) = 1
          /\ results[1].final_result = final_result
          /\ final_result[1].src = Len(calls) - 1
          /\ results[1].is_valid = Some(SaysTrue(verification[1]))

(* A decomposed run returned a result the verifier called invalid. *)
VerifyOnceAtEndWitness ==
    /\ pc = "done"
    /\ is_atomic = Some(FALSE)
    /\ results[1].is_valid = Some(FALSE)
    /\ results[1].final_result # None

(* C11: whenever Aggregate is invoked, every subtask of the loop has been
   executed before it: each has a completed Execute call earlier in the run,
   its result is in subtask_results, and Aggregate is handed that result. *)
AggregateAfterChildren ==
    \A k \in CallsOf("aggregator") :
        /\ Len(subtask_results) = Len(sample_subtasks)
        /\ Len(calls[k].input.subtask_results) = Len(sample_subtasks)
        /\ \A j \in 1..Len(sample_subtasks) :
              \E e \in CallsOf("executor") :
                  /\ e < k
                  /\ calls[e].ok
                  /\ calls[e].input.task = <<goal, " - ", sample_subtasks[j]>>
                  /\ subtask_results[j].task = sample_subtasks[j]
                  /\ subtask_results[j].result.src = e
                  /\ calls[k].input.subtask_results[j].result.src = e

(* Aggregate has been called and answered, after the three subtasks. *)
AggregateAfterChildrenWitness ==
    /\ pc = "verifier"
    /\ CallsOf("aggregator") # {}
    /\ Len(subtask_results) = Len(sample_subtasks)

FailedCalls == {k \in 1..Len(calls) : ~calls[k].ok}

(* C12: a stage call that fails is retried, and the failure reaches the caller
   only after the attempts (three by default) are used up: a failed run holds
   three failed attempts of the same stage call. *)
RetriedBeforeSurfacing ==
    pc = "failed" =>
        /\ Cardinality(FailedCalls) = 3
        /\ \A k1 \in FailedCalls, k2 \in FailedCalls :
              calls[k1].stage = calls[k2].stage /\ calls[k1].input = calls[k2].input

(* C13: when the Execute call of a subtask fails after earlier subtasks have
   succeeded, the outcome of the run still holds the results of the earlier
   subtasks and names the subtask that failed, and Aggregate is not called. *)
SiblingFailureIsolated ==
    (/\ pc = "failed"
     /\ calls[Len(calls)].stage = "executor"
     /\ Len(subtask_results) >= 1) =>
        /\ Outcome.kind = "error"
        /\ \A j \in 1..Len(subtask_results) :
              \E a \in 1..Len(Outcome.subtask_results) :
                  Outcome.subtask_results[a] = subtask_results[j]
        /\ Outcome.failed_task = Some(sample_subtasks[Len(subtask_results) + 1])
        /\ CallsOf("aggregator") = {}

(* C14 as stated: the returned result is the result of Execute (atomic goal)
   or of Aggregate (otherwise), and Verify is handed that same result,
   unmodified, whatever its length. *)
VerifyGetsWholeResult ==
    /\ \A k \in CallsOf("verifier") :
          /\ calls[k].input.goal = goal
          /\ calls[k].input.result = final_result[1]
          /\ final_result[1].src = k - 1
          /\ calls[k - 1].stage = IF is_atomic = Some(TRUE) THEN "executor" ELSE "aggregator"
    /\ pc = "done" => results[1].final_result = final_result

(* C14 as amended: the returned result is the result of Execute (atomic goal)
   or of Aggregate (otherwise); Verify is handed the goal and the first 1000
   characters of that result, which is the whole result only when it is at
   most 1000 characters long. *)
VerifyGetsResultPrefix ==
    /\ \A k \in CallsOf("verifier") :
          /\ calls[k].input.goal = goal
          /\ calls[k].input.result.src = final_result[1].src
          /\ calls[k].input.result.len =
                IF final_result[1].len <= 1000 THEN final_result[1].len ELSE 1000
          /\ final_result[1].src = k - 1
          /\ calls[k - 1].stage = IF is_atomic = Some(TRUE) THEN "executor" ELSE "aggregator"
    /\ pc = "done" => results[1].final_result = final_result

(* A run returned a result of 1001 characters of which Verify saw 1000. *)
VerifyGetsResultPrefixWitness ==
    /\ pc = "done"
    /\ results[1].final_result[1].len = 1001
    /\ calls[Len(calls)].input.result.len = 1000

-----------------------------------------------------------------------------
(* Frame and error properties of the router *)

(* C15: a get_model call whose key is already cached returns the cached
   handle, constructs nothing and leaves the cache as it is; and no call
   removes a cache entry or replaces its handle. *)
CacheOnlyGrows ==
    [][/\ \A k \in DOMAIN model_cache :
             k \in DOMAIN model_cache' /\ model_cache'[k] = model_cache[k]
       /\ last'.key \in DOMAIN model_cache =>
             /\ model_cache' = model_cache
             /\ lm_objects' = lm_objects
             /\ last'.outcome = "return"
             /\ last'.handle = model_cache[last'.key]]_vars

(* A call was served from a cache that holds a client for every key. *)
CacheOnlyGrowsWitness ==
    /\ last.outcome = "return"
    /\ ~last.constructed
    /\ DOMAIN model_cache = DOMAIN model_registry

(* C16: in every reachable state the routing matrix and the model registry are
   the ones __init__ built: no get_model call, hit or miss, changes a key or a
   value of either. *)
RegistryAndMatrixFrozen ==
    /\ routing_matrix = BuildRoutingMatrix
    /\ model_registry = BuildModelRegistry(azure_config)
    /\ DOMAIN model_registry = {"gpt5-chat", "deepseek-r1", "gpt4o", "grok-fast", "codestral"}

(* Three clients have been constructed and a further call was a cache hit. *)
RegistryAndMatrixFrozenWitness ==
    /\ last.outcome = "return"
    /\ ~last.constructed
    /\ Cardinality(DOMAIN model_cache) = 3

(* What a client built from a configuration is given: provider/name, the
   temperature, the caching flag, the three credentials, and max_tokens only
   when the configuration sets one. *)
ExpectedArgs(config) ==
    [model |-> <<config.provider, "/", config.name>>,
     temperature |-> config.temperature,
     cache |-> config.cache,
     api_base |-> config.api_base,
     api_key |-> config.api_key,
     api_version |-> config.api_version,
     max_tokens |-> config.max_tokens]

(* C17: every key of the client cache is a key of the model registry, and the
   handle cached under a key is a client constructed for that key from the
   registry's configuration of it. *)
CacheBuiltFromRegistry ==
    /\ DOMAIN model_cache \subseteq DOMAIN model_registry
    /\ \A k \in DOMAIN model_cache :
          /\ model_cache[k][1] = k
          /\ model_cache[k][2] \in 1..Len(lm_objects[k])
          /\ lm_objects[k][model_cache[k][2]] = ExpectedArgs(model_registry[k])
    /\ "gpt5-chat" \in DOMAIN model_cache =>
          LET args == lm_objects["gpt5-chat"][model_cache["gpt5-chat"][2]] IN
          /\ args.model = <<"azure", "/", "gpt-5-chat">>
          /\ args.temperature = "1.0"
          /\ args.cache
          /\ args.max_tokens = Some(16000)
          /\ args.api_key = azure_config.api_key
    /\ "gpt4o" \in DOMAIN model_cache =>
          lm_objects["gpt4o"][model_cache["gpt4o"][2]].max_tokens = None

(* A router with credentials caches a client with a token limit and one
   without. *)
CacheBuiltFromRegistryWitness ==
    /\ azure_config = SampleAzureConfig
    /\ {"gpt5-chat", "gpt4o"} \subseteq DOMAIN model_cache

(* C18: a get_model call in which the construction of the client fails leaves
   the cache and the constructed clients as they were, with no entry for its
   key; the cache never holds anything but a constructed client; and the next
   call for that key constructs again (or fails again) instead of returning a
   cached handle. *)
FailedConstructionLeavesCache ==
    [][/\ last'.outcome = "LMError" =>
             /\ model_cache' = model_cache
             /\ lm_objects' = lm_objects
             /\ last'.key \notin DOMAIN model_cache'
       /\ \A k \in DOMAIN model_cache' :
             model_cache'[k] # NoHandle /\ model_cache'[k][2] \in 1..Len(lm_objects'[k])
       /\ (last.outcome = "LMError" /\ last'.key = last.key) =>
             \/ last'.outcome = "LMError"
             \/ /\ last'.outcome = "return"
                /\ last'.constructed
                /\ last'.handle = <<last.key, 1>>
                /\ model_cache'[last.key] = last'.handle]_vars

(* A construction failed on a router whose cache already held two clients. *)
FailedConstructionLeavesCacheWitness ==
    /\ last.outcome = "LMError"
    /\ Cardinality(DOMAIN model_cache) = 2
    /\ last.key \notin DOMAIN model_cache

====
